---- MODULE Spec2Model ----
(***************************************************************************)
(* A model of the TempMail backend (src/backend/server.py): access codes,  *)
(* their redemption into signed session tokens, the mailboxes bound to a   *)
(* session and the messages routed to them.                                *)
(*                                                                         *)
(* Time is an integer number of clock ticks.  A datetime is a tick count,  *)
(* an ISO-8601 string is the tuple isoformat() prints (whole seconds, then *)
(* the fraction only when it is not zero), and a JWT "exp" is a whole      *)
(* number of seconds.  Documents are records; a collection is the sequence *)
(* of its documents in insertion order.  Every request handler that awaits *)
(* the store more than once, or reads the clock more than once, is a       *)
(* sequence of steps that interleave with every other request.             *)
(***************************************************************************)
EXTENDS Integers, Sequences, FiniteSets, TLC

\* ------------------------------------------------------------------ bounds
TicksPerSecond == 2     \* clock resolution of the model (datetime has 10^6)
MaxTicks == 1           \* single ticks the clock makes within an hour
MaxHours == 1           \* whole hours the clock jumps
MaxCodes == 1           \* access codes ever issued
MaxMailboxes == 2       \* mailboxes ever created
MaxMessages == 2        \* messages ever delivered
NumRedeemers == 2       \* concurrent POST /verify-code requests
MaxAdminLogins == 1     \* admin tokens ever issued

\* ------------------------------------------------------- program constants
SecondsPerHour == 3600
CodeLength == 8
AdminTokenHours == 24
ListLimit == 100
CodesListLimit == 1000

TicksPerHour == TicksPerSecond * SecondsPerHour

\* timedelta(hours=h), as ticks
Hours(h) == h * TicksPerHour

\* ------------------------------------------------------------- timestamps
\* datetime.isoformat() of a UTC instant: "<date>T<time>+00:00" when the
\* microsecond field is 0, "<date>T<time>.<micros>+00:00" otherwise.  The
\* fixed-width date and time are the whole seconds; what follows them is the
\* character "+" (code 43) or the character "." (code 46) and the fraction.
isoformat(t) ==
    IF t % TicksPerSecond = 0
    THEN << t \div TicksPerSecond, 43 >>
    ELSE << t \div TicksPerSecond, 46, t % TicksPerSecond >>

\* datetime.fromisoformat(s)
fromisoformat(s) ==
    s[1] * TicksPerSecond + (IF Len(s) = 3 THEN s[3] ELSE 0)

\* The absent value of a timestamp field (None)
None == << >>

\* String comparison, as the store compares two ISO strings: position by
\* position, a proper prefix first.
RECURSIVE StrLess(_, _)
StrLess(a, b) ==
    IF b = << >> THEN FALSE
    ELSE IF a = << >> THEN TRUE
    ELSE IF Head(a) # Head(b) THEN Head(a) < Head(b)
    ELSE StrLess(Tail(a), Tail(b))

\* jwt.encode turns a datetime "exp" into whole seconds since the epoch
\* (timegm of the time tuple, which has no sub-second field).
JwtExp(t) == t \div TicksPerSecond

\* datetime.fromtimestamp(exp, tz=utc)
fromtimestamp(exp) == exp * TicksPerSecond

\* ------------------------------------------------------------ code strings
\* A string is the sequence of its characters.
UpperChar(c) ==
    CASE c = "a" -> "A" [] c = "b" -> "B" [] c = "c" -> "C" [] c = "d" -> "D"
      [] c = "e" -> "E" [] c = "f" -> "F" [] c = "g" -> "G" [] c = "h" -> "H"
      [] OTHER -> c

upper(s) == [i \in 1..Len(s) |-> UpperChar(s[i])]

RECURSIVE lstrip(_)
lstrip(s) == IF s # << >> /\ Head(s) = " " THEN lstrip(Tail(s)) ELSE s

RECURSIVE rstrip(_)
rstrip(s) ==
    IF s # << >> /\ s[Len(s)] = " " THEN rstrip(SubSeq(s, 1, Len(s) - 1)) ELSE s

strip(s) == rstrip(lstrip(s))

\* request.code.upper().strip()
NormalizeCode(raw) == strip(upper(raw))

\* The codes generate_code() draws in the model: strings of CodeLength
\* characters from the upper-case letters and the digits.
SampleCodes ==
    { code \in { << "A", "B", "C", "D", "1", "2", "3", "4" >>,
                 << "E", "F", "G", "H", "5", "6", "7", "8" >> } :
        Len(code) = CodeLength }

\* The code strings a client sends to POST /verify-code.
RawCodes ==
    { << "A", "B", "C", "D", "1", "2", "3", "4" >>,
      << " ", "a", "b", "c", "d", "1", "2", "3", "4", " " >>,
      << "E", "F", "G", "H", "5", "6", "7", "8" >>,
      << "I", "N", "V", "A", "L", "I", "D", "1", "2", "3" >> }

\* The addresses generate_email_address() draws in the model.
SampleAddresses == { "aaaaaaaaaa@tempmail.local", "bbbbbbbbbb@tempmail.local" }

\* The expiry_hours a client sends to POST /admin/generate-code.
ExpiryHoursInputs == { -1, 0, 1 }

Redeemers == 1..NumRedeemers

VARIABLES
    now,             \* the clock, in ticks
    next_id,         \* the next identifier uuid4() hands out
    admin_users,     \* db.admin_users
    access_codes,    \* db.access_codes
    temp_emails,     \* db.temp_emails
    email_messages,  \* db.email_messages
    tokens,          \* the signed tokens issued so far
    vc,              \* the POST /verify-code requests in flight
    dl,              \* the POST /mock-email request in flight
    gm,              \* the GET /messages/{id} request in flight
    st,              \* the GET /admin/stats request in flight
    resp             \* the response the latest step returned, if any

vars == << now, next_id, admin_users, access_codes, temp_emails,
           email_messages, tokens, vc, dl, gm, st, resp >>

stores == << admin_users, access_codes, temp_emails, email_messages >>

\* ------------------------------------------------------------ the store
\* The positions of the documents a filter matches.
CodesByCode(coll, code) == { i \in 1..Len(coll) : coll[i].code = code }

CodesById(coll, id) == { i \in 1..Len(coll) : coll[i].id = id }

EmailsByAddress(coll, address) ==
    { i \in 1..Len(coll) : coll[i].email_address = address }

MessagesById(coll, id) == { i \in 1..Len(coll) : coll[i].id = id }

Min(S) == CHOOSE x \in S : \A y \in S : x <= y

\* find_one: the first document that matches (the caller tests for none).
FindOne(coll, matching) == coll[Min(matching)]

RECURSIVE RemoveAt(_, _)
RemoveAt(coll, i) ==
    IF i = 1 THEN Tail(coll) ELSE << Head(coll) >> \o RemoveAt(Tail(coll), i - 1)

DeleteFirst(coll, matching) ==
    IF matching = {} THEN coll ELSE Tail(coll)

\* delete_one: removes the first document that matches, if there is one.
DeleteOne(coll, matching) ==
    IF matching = {} THEN coll ELSE RemoveAt(coll, Min(matching))

\* uuid4(): an identifier no document had before.  Identifiers are numbered
\* per kind of document, so no two documents ever share one.
uuid4(kind) == << kind, next_id[kind] >>

\* ------------------------------------------------------------ tokens
NoId == << "none", 0 >>

NoToken == [sub |-> NoId, role |-> "", exp |-> 0, email |-> "", username |-> ""]

\* A bearer string that no create_token call produced.
ForgedToken ==
    [sub |-> << "admin", 1 >>, role |-> "admin", exp |-> 0, email |-> "",
     username |-> "forged"]

\* create_token: exp is the clock at the call plus expires_delta.
create_token(data, expires_delta, clock) ==
    [data EXCEPT !.exp = JwtExp(clock + expires_delta)]

TokenExpiredLate(token, clock) ==
    fromtimestamp(token.exp) + TicksPerSecond <= clock

\* jwt.decode rejects a token once the clock has reached its exp.
TokenExpired(token, clock) == fromtimestamp(token.exp) <= clock

\* verify_token: the detail of the 401 it raises, "" when it returns the
\* payload.  The signature is checked before the expiry.
verify_token(token, issued, clock) ==
    IF token \notin issued THEN "Invalid token"
    ELSE IF TokenExpired(token, clock) THEN "Session expired"
    ELSE ""

\* get_current_user: the status it raises, 0 when it returns the payload.
get_current_user(token, issued, clock) ==
    IF verify_token(token, issued, clock) # "" THEN 401 ELSE 0

get_admin_user_any_role(token, issued, clock) ==
    IF verify_token(token, issued, clock) # "" THEN 401 ELSE 0

\* get_admin_user: the status it raises, 0 when it returns the payload.
get_admin_user(token, issued, clock) ==
    IF verify_token(token, issued, clock) # "" THEN 401
    ELSE IF token.role # "admin" THEN 403
    ELSE 0

AuthDetail(token, issued, clock) ==
    IF verify_token(token, issued, clock) # ""
    THEN verify_token(token, issued, clock)
    ELSE "Admin access required"

\* The bearer tokens a client can send.
Credentials == tokens \cup { ForgedToken }

\* ------------------------------------------------------------ responses
NoResponse == [op |-> "none", status |-> 0, detail |-> "", data |-> << >>]

Response(op, status, detail, data) ==
    [op |-> op, status |-> status, detail |-> detail, data |-> data]

\* ------------------------------------------------------------ passwords
\* pwd_context.hash / pwd_context.verify
PasswordHash(password) == << "bcrypt", password >>

PasswordVerify(password, hash) == hash = PasswordHash(password)

Usernames == { "admin", "admin@botsmith.com" }

Passwords == { "admin123", "wrong" }

\* ------------------------------------------------------------ requests
NoCodeDoc ==
    [id |-> NoId, code |-> << >>, expires_at |-> None, used |-> FALSE,
     used_at |-> None, created_at |-> None, created_by |-> ""]

IdleVerify ==
    [pc |-> "idle", code |-> << >>, code_doc |-> NoCodeDoc,
     email_address |-> "", remaining_time |-> 0]

NoEmailDoc ==
    [id |-> NoId, email_address |-> "", session_id |-> NoId,
     created_at |-> None, expires_at |-> None]

IdleDeliver ==
    [pc |-> "idle", to_email |-> "", subject |-> "", email_doc |-> NoEmailDoc]

NoMessage ==
    [id |-> NoId, to_email |-> "", from_email |-> "", subject |-> "",
     body |-> "", received_at |-> None, is_read |-> FALSE]

IdleGetMessage == [pc |-> "idle", message_id |-> NoId, message |-> NoMessage]

IdleStats ==
    [pc |-> "idle", now |-> None, total_codes |-> 0, used_codes |-> 0,
     expired_codes |-> 0, total_emails |-> 0]

\* ------------------------------------------------------------ startup
\* init_admin on an empty credential store
init_admin ==
    << [id |-> << "admin", 1 >>, username |-> "admin@botsmith.com",
        password_hash |-> PasswordHash("admin123"),
        created_at |-> isoformat(0)] >>

Init ==
    /\ now = 0
    /\ next_id = [code |-> 1, email |-> 1, message |-> 1]
    /\ admin_users = init_admin
    /\ access_codes = << >>
    /\ temp_emails = << >>
    /\ email_messages = << >>
    /\ tokens = {}
    /\ vc = [p \in Redeemers |-> IdleVerify]
    /\ dl = IdleDeliver
    /\ gm = IdleGetMessage
    /\ st = IdleStats
    /\ resp = NoResponse

\* ------------------------------------------------------------ the clock
Tick ==
    /\ now % TicksPerHour < MaxTicks
    /\ now' = now + 1
    /\ resp' = NoResponse
    /\ UNCHANGED << next_id, stores, tokens, vc, dl, gm, st >>

HourPasses ==
    /\ now \div TicksPerHour < MaxHours
    /\ now' = now + TicksPerHour
    /\ resp' = NoResponse
    /\ UNCHANGED << next_id, stores, tokens, vc, dl, gm, st >>

\* ------------------------------------------------------------ admin
AdminsByUsername(coll, username) ==
    { i \in 1..Len(coll) : coll[i].username = username }

\* POST /admin/login
admin_login(username, password) ==
    LET found == AdminsByUsername(admin_users, username)
        admin == FindOne(admin_users, found)
    IN  IF found = {} \/ ~PasswordVerify(password, admin.password_hash)
        THEN /\ resp' = Response("admin_login", 401, "Invalid credentials", << >>)
             /\ UNCHANGED << now, next_id, stores, tokens, vc, dl, gm, st >>
        ELSE LET token ==
                     create_token(
                         [sub |-> admin.id, role |-> "admin", exp |-> 0,
                          email |-> "", username |-> admin.username],
                         Hours(AdminTokenHours), now)
             IN  /\ tokens' = tokens \cup { token }
                 /\ resp' = Response("admin_login", 200, "", token)
                 /\ UNCHANGED << now, next_id, stores, vc, dl, gm, st >>

\* POST /admin/generate-code
generate_access_code(token, expiry_hours) ==
    IF get_admin_user(token, tokens, now) # 0
    THEN /\ resp' = Response("generate_access_code",
                             get_admin_user(token, tokens, now),
                             AuthDetail(token, tokens, now), << >>)
         /\ UNCHANGED << now, next_id, stores, tokens, vc, dl, gm, st >>
    ELSE /\ \E code \in SampleCodes :
              LET created_at == now
                  expires_at == created_at + Hours(expiry_hours)
                  code_doc ==
                      [id |-> uuid4("code"), code |-> code,
                       expires_at |-> isoformat(expires_at), used |-> FALSE,
                       used_at |-> None, created_at |-> isoformat(created_at),
                       created_by |-> token.username]
              IN  /\ access_codes' = Append(access_codes, code_doc)
                  /\ resp' = Response("generate_access_code", 200, "", code_doc)
         /\ next_id' = [next_id EXCEPT !.code = @ + 1]
         /\ UNCHANGED << now, admin_users, temp_emails, email_messages, tokens,
                         vc, dl, gm, st >>

\* DELETE /admin/codes/{code_id}
revoke_code(token, code_id) ==
    IF get_admin_user(token, tokens, now) # 0
    THEN /\ resp' = Response("revoke_code", get_admin_user(token, tokens, now),
                             AuthDetail(token, tokens, now), << >>)
         /\ UNCHANGED << now, next_id, stores, tokens, vc, dl, gm, st >>
    ELSE /\ access_codes' = DeleteOne(access_codes, CodesById(access_codes, code_id))
         /\ resp' = IF CodesById(access_codes, code_id) = {}
                    THEN Response("revoke_code", 404, "Code not found", << >>)
                    ELSE Response("revoke_code", 200, "Code revoked", << >>)
         /\ UNCHANGED << now, next_id, admin_users, temp_emails, email_messages,
                         tokens, vc, dl, gm, st >>

\* ------------------------------------------------------------ redemption
\* POST /verify-code, one step per store call and per clock reading.  A
\* request that has returned leaves its slot idle and its response in resp.

\* lines 163-173: normalise, find_one by code string, the used flag
VerifyCodeFind(p, raw) ==
    /\ vc[p].pc = "idle"
    /\ LET code == NormalizeCode(raw)
           found == CodesByCode(access_codes, code)
           code_doc == FindOne(access_codes, found)
       IN  IF found = {}
           THEN /\ resp' = Response("verify_code", 400, "Invalid access code", << >>)
                /\ vc' = vc
           ELSE IF code_doc.used
           THEN /\ resp' = Response("verify_code", 400,
                                    "This code has already been used", << >>)
                /\ vc' = vc
           ELSE /\ resp' = NoResponse
                /\ vc' = [vc EXCEPT ![p] = [IdleVerify EXCEPT !.pc = "check_expiry",
                                               !.code = code, !.code_doc = code_doc]]
    /\ UNCHANGED << now, next_id, stores, tokens, dl, gm, st >>

CodeExpiredAtExpiry(code_doc, clock) ==
    clock >= fromisoformat(code_doc.expires_at)

\* line 177: datetime.now(timezone.utc) > expires_at
CodeExpired(code_doc, clock) == clock > fromisoformat(code_doc.expires_at)

\* lines 176-178: the expiry check
VerifyCodeCheckExpiry(p) ==
    /\ vc[p].pc = "check_expiry"
    /\ IF CodeExpired(vc[p].code_doc, now)
       THEN /\ resp' = Response("verify_code", 400, "This code has expired", << >>)
            /\ vc' = [vc EXCEPT ![p] = IdleVerify]
       ELSE /\ resp' = NoResponse
            /\ vc' = [vc EXCEPT ![p].pc = "mark_used"]
    /\ UNCHANGED << now, next_id, stores, tokens, dl, gm, st >>

\* The update of lines 181-184, on the first document with the code string.
MarkUsed(coll, code, clock) ==
    LET matching == CodesByCode(coll, code)
    IN  IF matching = {} THEN coll
        ELSE [coll EXCEPT ![Min(matching)] =
                 [@ EXCEPT !.used = TRUE, !.used_at = isoformat(clock)]]

\* lines 181-184: update_one by code string, whatever the used flag is now
VerifyCodeMarkUsed(p) ==
    /\ vc[p].pc = "mark_used"
    /\ access_codes' = MarkUsed(access_codes, vc[p].code, now)
    /\ vc' = [vc EXCEPT ![p].pc = "insert_email"]
    /\ resp' = NoResponse
    /\ UNCHANGED << now, next_id, admin_users, temp_emails, email_messages,
                    tokens, dl, gm, st >>

\* lines 187-196: the session's first mailbox, with the code's expires_at
VerifyCodeInsertEmail(p, email_address) ==
    /\ vc[p].pc = "insert_email"
    /\ temp_emails' = Append(temp_emails,
           [id |-> uuid4("email"), email_address |-> email_address,
            session_id |-> vc[p].code_doc.id,
            created_at |-> isoformat(now),
            expires_at |-> vc[p].code_doc.expires_at])
    /\ vc' = [vc EXCEPT ![p].pc = "remaining_time",
                        ![p].email_address = email_address]
    /\ next_id' = [next_id EXCEPT !.email = @ + 1]
    /\ resp' = NoResponse
    /\ UNCHANGED << now, admin_users, access_codes, email_messages, tokens,
                    dl, gm, st >>

\* line 199: remaining_time = expires_at - now
RemainingTime(code_doc, clock) == fromisoformat(code_doc.expires_at) - clock

VerifyCodeRemainingTime(p) ==
    /\ vc[p].pc = "remaining_time"
    /\ vc' = [vc EXCEPT ![p].pc = "create_token",
                        ![p].remaining_time = RemainingTime(vc[p].code_doc, now)]
    /\ resp' = NoResponse
    /\ UNCHANGED << now, next_id, stores, tokens, dl, gm, st >>

\* lines 200-203: the session token; create_token reads the clock again
SessionToken(code_doc, email_address, remaining_time, clock) ==
    create_token([sub |-> code_doc.id, role |-> "user", exp |-> 0,
                  email |-> email_address, username |-> ""],
                 remaining_time, clock)

\* lines 200-209: the token and the response
VerifyCodeCreateToken(p) ==
    /\ vc[p].pc = "create_token"
    /\ LET token == SessionToken(vc[p].code_doc, vc[p].email_address,
                                 vc[p].remaining_time, now)
       IN  /\ tokens' = tokens \cup { token }
           /\ resp' = Response("verify_code", 200, "",
                               [token |-> token,
                                expires_at |-> vc[p].code_doc.expires_at,
                                email_address |-> vc[p].email_address])
    /\ vc' = [vc EXCEPT ![p] = IdleVerify]
    /\ UNCHANGED << now, next_id, stores, dl, gm, st >>

verify_code(p) ==
    \/ \E raw \in RawCodes : VerifyCodeFind(p, raw)
    \/ VerifyCodeCheckExpiry(p)
    \/ VerifyCodeMarkUsed(p)
    \/ \E email_address \in SampleAddresses : VerifyCodeInsertEmail(p, email_address)
    \/ VerifyCodeRemainingTime(p)
    \/ VerifyCodeCreateToken(p)

\* ------------------------------------------------------------ mailboxes
Unauthorized(op, token) ==
    /\ resp' = Response(op, 401, verify_token(token, tokens, now), << >>)
    /\ UNCHANGED << now, next_id, stores, tokens, vc, dl, gm, st >>

\* to_list(n): the first n documents of the cursor
to_list(cursor, n) == SubSeq(cursor, 1, IF Len(cursor) < n THEN Len(cursor) ELSE n)

\* POST /email/generate
generate_new_email(token, email_address) ==
    IF get_current_user(token, tokens, now) # 0
    THEN Unauthorized("generate_new_email", token)
    ELSE LET expires_at == fromtimestamp(token.exp)
             created_at == now
             email_doc ==
                 [id |-> uuid4("email"), email_address |-> email_address,
                  session_id |-> token.sub,
                  created_at |-> isoformat(created_at),
                  expires_at |-> isoformat(expires_at)]
         IN  /\ temp_emails' = Append(temp_emails, email_doc)
             /\ next_id' = [next_id EXCEPT !.email = @ + 1]
             /\ resp' = Response("generate_new_email", 200, "", email_doc)
             /\ UNCHANGED << now, admin_users, access_codes, email_messages,
                             tokens, vc, dl, gm, st >>

\* find({"session_id": sub})
EmailsOfSession(coll, sub) == SelectSeq(coll, LAMBDA e : e.session_id = sub)

\* GET /emails
get_my_emails(token) ==
    IF get_current_user(token, tokens, now) # 0
    THEN Unauthorized("get_my_emails", token)
    ELSE /\ resp' = Response("get_my_emails", 200, "",
                             to_list(EmailsOfSession(temp_emails, token.sub), ListLimit))
         /\ UNCHANGED << now, next_id, stores, tokens, vc, dl, gm, st >>

\* ------------------------------------------------------------ messages
\* sort("received_at", -1): descending by the received_at string; documents
\* with equal keys keep their store order.
RECURSIVE InsertDesc(_, _)
InsertDesc(sorted, m) ==
    IF sorted = << >> THEN << m >>
    ELSE IF StrLess(Head(sorted).received_at, m.received_at)
    THEN << m >> \o sorted
    ELSE << Head(sorted) >> \o InsertDesc(Tail(sorted), m)

RECURSIVE SortDesc(_)
SortDesc(coll) ==
    IF coll = << >> THEN << >>
    ELSE InsertDesc(SortDesc(SubSeq(coll, 1, Len(coll) - 1)), coll[Len(coll)])

\* lines 250-261: the session's addresses, then the messages sent to them
MessagesOfSession(emails_coll, messages_coll, sub) ==
    LET emails == to_list(EmailsOfSession(emails_coll, sub), ListLimit)
        email_addresses == { emails[i].email_address : i \in 1..Len(emails) }
        found == SelectSeq(messages_coll, LAMBDA m : m.to_email \in email_addresses)
    IN  to_list(SortDesc(found), ListLimit)

\* GET /messages
get_messages(token) ==
    IF get_current_user(token, tokens, now) # 0
    THEN Unauthorized("get_messages", token)
    ELSE /\ resp' = Response("get_messages", 200, "",
                             MessagesOfSession(temp_emails, email_messages, token.sub))
         /\ UNCHANGED << now, next_id, stores, tokens, vc, dl, gm, st >>

GetOwnMessageFind(token, message_id) ==
    /\ gm.pc = "idle"
    /\ IF get_current_user(token, tokens, now) # 0
       THEN /\ resp' = Response("get_message", 401,
                                verify_token(token, tokens, now), << >>)
            /\ gm' = gm
       ELSE IF \/ MessagesById(email_messages, message_id) = {}
               \/ \A i \in 1..Len(temp_emails) :
                     temp_emails[i].session_id = token.sub
                        => temp_emails[i].email_address
                             # FindOne(email_messages,
                                       MessagesById(email_messages, message_id)).to_email
       THEN /\ resp' = Response("get_message", 404, "Message not found", << >>)
            /\ gm' = gm
       ELSE /\ resp' = NoResponse
            /\ gm' = [pc |-> "mark_read", message_id |-> message_id,
                      message |-> FindOne(email_messages,
                                          MessagesById(email_messages, message_id))]
    /\ UNCHANGED << now, next_id, stores, tokens, vc, dl, st >>

\* GET /messages/{message_id}, lines 268-270: find_one by id
GetMessageFind(token, message_id) ==
    /\ gm.pc = "idle"
    /\ IF get_current_user(token, tokens, now) # 0
       THEN /\ resp' = Response("get_message", 401,
                                verify_token(token, tokens, now), << >>)
            /\ gm' = gm
       ELSE IF MessagesById(email_messages, message_id) = {}
       THEN /\ resp' = Response("get_message", 404, "Message not found", << >>)
            /\ gm' = gm
       ELSE /\ resp' = NoResponse
            /\ gm' = [pc |-> "mark_read", message_id |-> message_id,
                      message |-> FindOne(email_messages,
                                          MessagesById(email_messages, message_id))]
    /\ UNCHANGED << now, next_id, stores, tokens, vc, dl, st >>

MarkReadToggles(coll, message_id) ==
    LET matching == MessagesById(coll, message_id)
    IN  IF matching = {} THEN coll
        ELSE [coll EXCEPT ![Min(matching)] = [@ EXCEPT !.is_read = ~@]]

\* The update of lines 273-276, on the document with the id if it is there.
MarkRead(coll, message_id) ==
    LET matching == MessagesById(coll, message_id)
    IN  IF matching = {} THEN coll
        ELSE [coll EXCEPT ![Min(matching)] = [@ EXCEPT !.is_read = TRUE]]

\* lines 273-279: update_one, and the message read before it with is_read set
GetMessageMarkRead ==
    /\ gm.pc = "mark_read"
    /\ email_messages' = MarkRead(email_messages, gm.message_id)
    /\ resp' = Response("get_message", 200, "", [gm.message EXCEPT !.is_read = TRUE])
    /\ gm' = IdleGetMessage
    /\ UNCHANGED << now, next_id, admin_users, access_codes, temp_emails,
                    tokens, vc, dl, st >>

\* DELETE /messages/{message_id}
delete_message(token, message_id) ==
    IF get_current_user(token, tokens, now) # 0
    THEN Unauthorized("delete_message", token)
    ELSE /\ email_messages' =
                DeleteOne(email_messages, MessagesById(email_messages, message_id))
         /\ resp' = IF MessagesById(email_messages, message_id) = {}
                    THEN Response("delete_message", 404, "Message not found", << >>)
                    ELSE Response("delete_message", 200, "Message deleted", << >>)
         /\ UNCHANGED << now, next_id, admin_users, access_codes, temp_emails,
                         tokens, vc, dl, gm, st >>

\* ------------------------------------------------------------ delivery
\* POST /mock-email, lines 382-388: find_one by address
DeliverFind(to_email, subject) ==
    /\ dl.pc = "idle"
    /\ IF EmailsByAddress(temp_emails, to_email) = {}
       THEN /\ resp' = Response("receive_mock_email", 404,
                                "Email address not found", << >>)
            /\ dl' = dl
       ELSE /\ resp' = NoResponse
            /\ dl' = [pc |-> "check_expiry", to_email |-> to_email,
                      subject |-> subject,
                      email_doc |-> FindOne(temp_emails,
                                            EmailsByAddress(temp_emails, to_email))]
    /\ UNCHANGED << now, next_id, stores, tokens, vc, gm, st >>

EmailExpiredAtExpiry(email_doc, clock) ==
    clock >= fromisoformat(email_doc.expires_at)

\* line 392: datetime.now(timezone.utc) > expires_at
EmailExpired(email_doc, clock) == clock > fromisoformat(email_doc.expires_at)

\* lines 391-393: the expiry check
DeliverCheckExpiry ==
    /\ dl.pc = "check_expiry"
    /\ IF EmailExpired(dl.email_doc, now)
       THEN /\ resp' = Response("receive_mock_email", 400,
                                "Email address has expired", << >>)
            /\ dl' = IdleDeliver
       ELSE /\ resp' = NoResponse
            /\ dl' = [dl EXCEPT !.pc = "insert"]
    /\ UNCHANGED << now, next_id, stores, tokens, vc, gm, st >>

\* lines 396-409: the message, stamped with the clock at the insert
DeliverInsert ==
    /\ dl.pc = "insert"
    /\ LET message_doc ==
               [id |-> uuid4("message"), to_email |-> dl.to_email,
                from_email |-> "test@example.com", subject |-> dl.subject,
                body |-> "This is a test email message.",
                received_at |-> isoformat(now), is_read |-> FALSE]
       IN  /\ email_messages' = Append(email_messages, message_doc)
           /\ resp' = Response("receive_mock_email", 200, "Email received",
                               message_doc.id)
    /\ next_id' = [next_id EXCEPT !.message = @ + 1]
    /\ dl' = IdleDeliver
    /\ UNCHANGED << now, admin_users, access_codes, temp_emails, tokens,
                    vc, gm, st >>

Subjects == { "Test Email", "Other" }

receive_mock_email ==
    \/ \E to_email \in SampleAddresses, subject \in Subjects :
          DeliverFind(to_email, subject)
    \/ DeliverCheckExpiry
    \/ DeliverInsert

\* ------------------------------------------------------------ statistics
\* GET /admin/stats, line 352: the clock, read once, as a string
StatsStart(token) ==
    /\ st.pc = "idle"
    /\ IF get_admin_user(token, tokens, now) # 0
       THEN /\ resp' = Response("get_stats", get_admin_user(token, tokens, now),
                                AuthDetail(token, tokens, now), << >>)
            /\ st' = st
       ELSE /\ resp' = NoResponse
            /\ st' = [IdleStats EXCEPT !.pc = "total_codes", !.now = isoformat(now)]
    /\ UNCHANGED << now, next_id, stores, tokens, vc, dl, gm >>

\* line 354: count_documents({})
StatsTotalCodes ==
    /\ st.pc = "total_codes"
    /\ st' = [st EXCEPT !.pc = "used_codes", !.total_codes = Len(access_codes)]
    /\ resp' = NoResponse
    /\ UNCHANGED << now, next_id, stores, tokens, vc, dl, gm >>

UsedCodes(coll) == { i \in 1..Len(coll) : coll[i].used = TRUE }

\* line 355: count_documents({"used": True})
StatsUsedCodes ==
    /\ st.pc = "used_codes"
    /\ st' = [st EXCEPT !.pc = "expired_codes",
                        !.used_codes = Cardinality(UsedCodes(access_codes))]
    /\ resp' = NoResponse
    /\ UNCHANGED << now, next_id, stores, tokens, vc, dl, gm >>

ExpiredUnusedCodes(coll, now_string) ==
    { i \in 1..Len(coll) :
        coll[i].used = FALSE /\ StrLess(coll[i].expires_at, now_string) }

\* lines 358-361: count_documents({"used": False, "expires_at": {"$lt": now}})
StatsExpiredCodes ==
    /\ st.pc = "expired_codes"
    /\ st' = [st EXCEPT !.pc = "total_emails",
                        !.expired_codes =
                            Cardinality(ExpiredUnusedCodes(access_codes, st.now))]
    /\ resp' = NoResponse
    /\ UNCHANGED << now, next_id, stores, tokens, vc, dl, gm >>

\* line 364: count_documents({}) of the mailboxes
StatsTotalEmails ==
    /\ st.pc = "total_emails"
    /\ st' = [st EXCEPT !.pc = "total_messages", !.total_emails = Len(temp_emails)]
    /\ resp' = NoResponse
    /\ UNCHANGED << now, next_id, stores, tokens, vc, dl, gm >>

ActiveCodesIgnoringExpired(total_codes, used_codes, expired_codes) ==
    total_codes - used_codes

\* line 363
ActiveCodes(total_codes, used_codes, expired_codes) ==
    total_codes - used_codes - expired_codes

\* lines 363-374: the last count and the response
StatsTotalMessages ==
    /\ st.pc = "total_messages"
    /\ resp' = Response("get_stats", 200, "",
           [total_codes |-> st.total_codes,
            active_codes |-> ActiveCodes(st.total_codes, st.used_codes,
                                         st.expired_codes),
            used_codes |-> st.used_codes,
            expired_codes |-> st.expired_codes,
            total_emails |-> st.total_emails,
            total_messages |-> Len(email_messages)])
    /\ st' = IdleStats
    /\ UNCHANGED << now, next_id, stores, tokens, vc, dl, gm >>

get_stats ==
    \/ \E token \in Credentials : StatsStart(token)
    \/ StatsTotalCodes
    \/ StatsUsedCodes
    \/ StatsExpiredCodes
    \/ StatsTotalEmails
    \/ StatsTotalMessages

\* sort("created_at", -1), equal keys in store order
RECURSIVE InsertCodeDesc(_, _)
InsertCodeDesc(sorted, c) ==
    IF sorted = << >> THEN << c >>
    ELSE IF StrLess(Head(sorted).created_at, c.created_at)
    THEN << c >> \o sorted
    ELSE << Head(sorted) >> \o InsertCodeDesc(Tail(sorted), c)

RECURSIVE SortCodesDesc(_)
SortCodesDesc(coll) ==
    IF coll = << >> THEN << >>
    ELSE InsertCodeDesc(SortCodesDesc(SubSeq(coll, 1, Len(coll) - 1)),
                        coll[Len(coll)])

\* GET /admin/codes
get_all_codes(token) ==
    IF get_admin_user(token, tokens, now) # 0
    THEN /\ resp' = Response("get_all_codes", get_admin_user(token, tokens, now),
                             AuthDetail(token, tokens, now), << >>)
         /\ UNCHANGED << now, next_id, stores, tokens, vc, dl, gm, st >>
    ELSE /\ resp' = Response("get_all_codes", 200, "",
                             to_list(SortCodesDesc(access_codes), CodesListLimit))
         /\ UNCHANGED << now, next_id, stores, tokens, vc, dl, gm, st >>

\* ------------------------------------------------------------ next
MessageIds == { << "message", n >> : n \in 1..MaxMessages }

CodeIds == { << "code", n >> : n \in 1..MaxCodes }

\* The bounds of the model: how many documents and admin tokens a behaviour
\* creates.  A step that would create one more is not taken.
WithinBounds ==
    /\ next_id.code <= MaxCodes + 1
    /\ next_id.email <= MaxMailboxes + 1
    /\ next_id.message <= MaxMessages + 1
    /\ Cardinality({ t \in tokens : t.role = "admin" }) <= MaxAdminLogins

\* Every request the API serves, from every client.
Next ==
    \/ Tick
    \/ HourPasses
    \/ \E u \in Usernames, pw \in Passwords : admin_login(u, pw) /\ WithinBounds'
    \/ \E t \in Credentials, h \in ExpiryHoursInputs :
          generate_access_code(t, h) /\ WithinBounds'
    \/ \E t \in Credentials : get_all_codes(t)
    \/ \E t \in Credentials, id \in CodeIds : revoke_code(t, id)
    \/ get_stats
    \/ \E p \in Redeemers : verify_code(p) /\ WithinBounds'
    \/ \E t \in Credentials, a \in SampleAddresses :
          generate_new_email(t, a) /\ WithinBounds'
    \/ \E t \in Credentials : get_my_emails(t)
    \/ \E t \in Credentials : get_messages(t)
    \/ \E t \in Credentials, id \in MessageIds : GetMessageFind(t, id)
    \/ GetMessageMarkRead
    \/ \E t \in Credentials, id \in MessageIds : delete_message(t, id)
    \/ receive_mock_email /\ WithinBounds'

Spec == Init /\ [][Next]_vars

\* Redemption with the administrator's code operations and the clock.
NextRedeem ==
    \/ Tick
    \/ HourPasses
    \/ admin_login("admin@botsmith.com", "admin123") /\ WithinBounds'
    \/ \E t \in tokens, h \in ExpiryHoursInputs :
          generate_access_code(t, h) /\ WithinBounds'
    \/ \E t \in tokens, id \in CodeIds : revoke_code(t, id)
    \/ \E p \in Redeemers : verify_code(p) /\ WithinBounds'

SpecRedeem == Init /\ [][NextRedeem]_vars

\* Mailboxes and deliveries: sessions are opened by one redemption at a
\* time, a session adds mailboxes, mail arrives while the clock runs.
NextMailbox ==
    \/ Tick
    \/ HourPasses
    \/ admin_login("admin@botsmith.com", "admin123") /\ WithinBounds'
    \/ \E t \in tokens : generate_access_code(t, 1) /\ WithinBounds'
    \/ verify_code(1) /\ WithinBounds'
    \/ \E t \in tokens, a \in SampleAddresses :
          generate_new_email(t, a) /\ WithinBounds'
    \/ \E a \in SampleAddresses : DeliverFind(a, "Test Email")
    \/ DeliverCheckExpiry
    \/ DeliverInsert /\ WithinBounds'

SpecMailbox == Init /\ [][NextMailbox]_vars

\* Messages of one mailbox: deliveries, fetches and deletions by any
\* session's client. No handler of this group reads the clock except to stamp
\* received_at, so the clock stands still here.
NextMessages ==
    \/ admin_login("admin@botsmith.com", "admin123") /\ WithinBounds'
    \/ \E t \in tokens : generate_access_code(t, 1) /\ WithinBounds'
    \/ verify_code(1) /\ WithinBounds'
    \/ DeliverFind("aaaaaaaaaa@tempmail.local", "Test Email")
    \/ DeliverCheckExpiry
    \/ DeliverInsert /\ WithinBounds'
    \/ \E t \in Credentials, id \in MessageIds : GetMessageFind(t, id)
    \/ GetMessageMarkRead
    \/ \E t \in tokens, id \in MessageIds : delete_message(t, id)

SpecMessages == Init /\ [][NextMessages]_vars

\* Statistics, while codes are issued, redeemed and revoked. get_stats reads
\* the clock once, before its first query; codes issued with a negative
\* lifetime are expired from the start, so the clock stands still here.
NextStats ==
    \/ admin_login("admin@botsmith.com", "admin123") /\ WithinBounds'
    \/ \E t \in tokens, h \in ExpiryHoursInputs :
          generate_access_code(t, h) /\ WithinBounds'
    \/ \E t \in tokens, id \in CodeIds : revoke_code(t, id)
    \/ verify_code(1) /\ WithinBounds'
    \/ get_stats

SpecStats == Init /\ [][NextStats]_vars

\* Redemptions one at a time, of codes that expire when issued or an hour
\* later, while the administrator revokes codes and the clock ticks.
NextRefuse ==
    \/ Tick
    \/ admin_login("admin@botsmith.com", "admin123") /\ WithinBounds'
    \/ \E t \in tokens, h \in { 0, 1 } :
          generate_access_code(t, h) /\ WithinBounds'
    \/ \E t \in tokens, id \in CodeIds : revoke_code(t, id)
    \/ verify_code(1) /\ WithinBounds'

SpecRefuse == Init /\ [][NextRefuse]_vars

\* Deliveries to one address, whose mailbox expires with its code: when the
\* code was issued or an hour later, while the clock ticks.
NextDeliver ==
    \/ Tick
    \/ admin_login("admin@botsmith.com", "admin123") /\ WithinBounds'
    \/ \E t \in tokens, h \in { 0, 1 } :
          generate_access_code(t, h) /\ WithinBounds'
    \/ verify_code(1) /\ WithinBounds'
    \/ DeliverFind("aaaaaaaaaa@tempmail.local", "Test Email")
    \/ DeliverCheckExpiry
    \/ DeliverInsert /\ WithinBounds'

SpecDeliver == Init /\ [][NextDeliver]_vars

\* The administrator's routes, called with every token there is: the
\* administrator's, a session's (of a code that expires when issued or an hour
\* later) and a forged one; logins with every username and password.
NextAdmin ==
    \/ \E u \in Usernames, pw \in Passwords : admin_login(u, pw) /\ WithinBounds'
    \/ \E t \in Credentials, h \in { 0, 1 } :
          generate_access_code(t, h) /\ WithinBounds'
    \/ \E t \in Credentials : get_all_codes(t)
    \/ \E t \in Credentials, id \in CodeIds : revoke_code(t, id)
    \/ get_stats
    \/ VerifyCodeFind(1, << "A", "B", "C", "D", "1", "2", "3", "4" >>)
    \/ VerifyCodeCheckExpiry(1)
    \/ VerifyCodeMarkUsed(1)
    \/ VerifyCodeInsertEmail(1, "aaaaaaaaaa@tempmail.local") /\ WithinBounds'
    \/ VerifyCodeRemainingTime(1)
    \/ VerifyCodeCreateToken(1)

SpecAdmin == Init /\ [][NextAdmin]_vars

\* Revocation, with a second code issued: generate_code() draws every code
\* string afresh and nothing rejects a string that is already stored.
TwoCodes == MaxCodes + 1

NextRevoke ==
    \/ admin_login("admin@botsmith.com", "admin123") /\ WithinBounds'
    \/ \E t \in tokens :
          generate_access_code(t, 1) /\ next_id'.code <= TwoCodes + 1
    \/ \E t \in tokens : get_all_codes(t)
    \/ \E t \in tokens, n \in 1..TwoCodes : revoke_code(t, << "code", n >>)
    \/ verify_code(1) /\ WithinBounds'

SpecRevoke == Init /\ [][NextRevoke]_vars

\* Sessions: the mailbox and listing routes of a session and the code routes
\* of the administrator, called with every issued token while the clock ticks; the
\* codes expire when issued or an hour later and the administrator revokes
\* them.
NextSession ==
    \/ Tick
    \/ admin_login("admin@botsmith.com", "admin123") /\ WithinBounds'
    \/ \E t \in tokens, h \in { 0, 1 } :
          generate_access_code(t, h) /\ WithinBounds'
    \/ \E t \in tokens, id \in CodeIds : revoke_code(t, id)
    \/ VerifyCodeFind(1, << "A", "B", "C", "D", "1", "2", "3", "4" >>)
    \/ VerifyCodeCheckExpiry(1)
    \/ VerifyCodeMarkUsed(1)
    \/ VerifyCodeInsertEmail(1, "aaaaaaaaaa@tempmail.local") /\ WithinBounds'
    \/ VerifyCodeRemainingTime(1)
    \/ VerifyCodeCreateToken(1)
    \/ \E t \in tokens :
          generate_new_email(t, "bbbbbbbbbb@tempmail.local") /\ WithinBounds'
    \/ \E t \in tokens : get_my_emails(t)
    \/ \E t \in tokens : get_messages(t)

SpecSession == Init /\ [][NextSession]_vars

\* Deletions: one session's mailbox, its deliveries, and the fetches,
\* listings and deletions of every token holder.
NextDelete ==
    \/ admin_login("admin@botsmith.com", "admin123") /\ WithinBounds'
    \/ \E t \in tokens : generate_access_code(t, 1) /\ WithinBounds'
    \/ VerifyCodeFind(1, << "A", "B", "C", "D", "1", "2", "3", "4" >>)
    \/ VerifyCodeCheckExpiry(1)
    \/ VerifyCodeMarkUsed(1)
    \/ VerifyCodeInsertEmail(1, "aaaaaaaaaa@tempmail.local") /\ WithinBounds'
    \/ VerifyCodeRemainingTime(1)
    \/ VerifyCodeCreateToken(1)
    \/ DeliverFind("aaaaaaaaaa@tempmail.local", "Test Email")
    \/ DeliverCheckExpiry
    \/ DeliverInsert /\ WithinBounds'
    \/ \E t \in tokens : get_messages(t)
    \/ \E t \in tokens, id \in MessageIds : GetMessageFind(t, id)
    \/ GetMessageMarkRead
    \/ \E t \in tokens, id \in MessageIds : delete_message(t, id)

SpecDelete == Init /\ [][NextDelete]_vars

\* One session whose mailbox receives more messages than a listing returns.
BulkMessages == ListLimit + 1

NextBulk ==
    \/ admin_login("admin@botsmith.com", "admin123") /\ WithinBounds'
    \/ \E t \in tokens : generate_access_code(t, 1) /\ WithinBounds'
    \/ VerifyCodeFind(1, << "A", "B", "C", "D", "1", "2", "3", "4" >>)
    \/ VerifyCodeCheckExpiry(1)
    \/ VerifyCodeMarkUsed(1)
    \/ VerifyCodeInsertEmail(1, "aaaaaaaaaa@tempmail.local") /\ WithinBounds'
    \/ VerifyCodeRemainingTime(1)
    \/ VerifyCodeCreateToken(1)
    \/ DeliverFind("aaaaaaaaaa@tempmail.local", "Test Email")
    \/ DeliverCheckExpiry
    \/ DeliverInsert /\ next_id'.message <= BulkMessages + 1
    \/ \E t \in tokens : get_messages(t)

SpecBulk == Init /\ [][NextBulk]_vars

\* ================================================================ claims
\* A property of steps is written [][A]_v with v the variables, the kind and
\* the status of the response first: v changes exactly when vars changes, and
\* two responses of different kinds differ in their first component.

Redeemed == resp.op = "verify_code" /\ resp.status = 200

\* C1: no code ever yields two successful redemptions: a redemption never
\* succeeds for a code for which a session token was issued before.
C1_AtMostOneRedemption ==
    [][(resp'.op = "verify_code" /\ resp'.status = 200)
          => \A t \in tokens : t.sub # resp'.data.token.sub]_vars

\* C2: the exp of the token a redemption issues is not later than the
\* expires_at of the redeemed code.
C2_SessionWithinCode ==
    Redeemed =>
        fromtimestamp(resp.data.token.exp) <= fromisoformat(resp.data.expires_at)

\* C3: the exp of the token a redemption issues is the expires_at of the
\* redeemed code, the same instant.
C3_ExpIsCodeExpiry ==
    Redeemed =>
        fromtimestamp(resp.data.token.exp) = fromisoformat(resp.data.expires_at)

\* C10: a redemption fails with "Invalid access code" when no stored code has
\* the normalised input, with "already been used" when the code found is used
\* (expired or not), with "expired" when the code found is unused and the clock
\* is past its expires_at, and in no other case; a failing redemption changes
\* no code, creates no mailbox and issues no token.
C10_RedeemFailures ==
    [][\A p \in Redeemers :
         /\ \A raw \in RawCodes :
              VerifyCodeFind(p, raw) =>
                LET matches == { i \in 1..Len(access_codes) :
                                   access_codes[i].code = NormalizeCode(raw) }
                    first == access_codes[Min(matches)]
                IN  /\ (matches = {}) <=>
                          (resp'.status = 400 /\ resp'.detail = "Invalid access code")
                    /\ (matches # {} /\ first.used) <=>
                          (resp'.status = 400
                             /\ resp'.detail = "This code has already been used")
                    /\ (matches # {} /\ ~first.used) <=> resp'.op = "none"
         /\ VerifyCodeCheckExpiry(p) =>
              ((now > fromisoformat(vc[p].code_doc.expires_at)) <=>
                   (resp'.status = 400 /\ resp'.detail = "This code has expired"))
         /\ (resp'.op = "verify_code" /\ resp'.status = 400) =>
              UNCHANGED << access_codes, temp_emails, email_messages, tokens >>]_vars

\* A used code is presented after its expiry and is refused as used.
C10_Witness ==
    /\ resp.op = "verify_code"
    /\ resp.detail = "This code has already been used"
    /\ \E i \in 1..Len(access_codes) :
          /\ access_codes[i].used
          /\ now > fromisoformat(access_codes[i].expires_at)

\* C4: every mailbox of a session expires at the exp of the session's token.
C4_MailboxExpiryIsSessionExp ==
    \A i \in 1..Len(temp_emails) : \A t \in tokens :
        (t.role = "user" /\ t.sub = temp_emails[i].session_id)
            => fromisoformat(temp_emails[i].expires_at) = fromtimestamp(t.exp)

\* C5: a delivery fails with "Email address not found" exactly when no stored
\* mailbox has the destination address, and with "Email address has expired"
\* exactly when the mailbox it found, still stored, has expires_at before the
\* clock; a failing delivery changes no mailbox, code or message.
C5_DeliverFailures ==
    [][/\ \A a \in SampleAddresses, s \in Subjects :
            DeliverFind(a, s) =>
              ((\A i \in 1..Len(temp_emails) : temp_emails[i].email_address # a)
                 <=> (resp'.status = 404
                        /\ resp'.detail = "Email address not found"))
       /\ DeliverCheckExpiry =>
            /\ \E i \in 1..Len(temp_emails) : temp_emails[i] = dl.email_doc
            /\ (now > fromisoformat(dl.email_doc.expires_at))
                 <=> (resp'.status = 400
                        /\ resp'.detail = "Email address has expired")
       /\ (resp'.op = "receive_mock_email" /\ resp'.status \in { 400, 404 }) =>
            UNCHANGED << temp_emails, access_codes, email_messages >>]_vars

\* A delivery is refused as expired while the mailbox is still stored.
C5_Witness ==
    /\ resp.op = "receive_mock_email"
    /\ resp.status = 400
    /\ \E i \in 1..Len(temp_emails) :
          now > fromisoformat(temp_emails[i].expires_at)

\* C6: every stored message is addressed to a stored mailbox and was received
\* no later than that mailbox expires.
C6_MessagesWithinMailbox ==
    \A k \in 1..Len(email_messages) :
        \E i \in 1..Len(temp_emails) :
            /\ temp_emails[i].email_address = email_messages[k].to_email
            /\ fromisoformat(email_messages[k].received_at)
                   <= fromisoformat(temp_emails[i].expires_at)

\* C7: a listing with a valid token returns exactly the stored messages that
\* are addressed to a mailbox of the token's session, newest first.
C7_ListsAllMessages ==
    [][\A t \in tokens :
         (resp'.op = "get_messages" /\ resp'.status = 200 /\ get_messages(t)) =>
           LET owned ==
                   { k \in 1..Len(email_messages) :
                       \E i \in 1..Len(temp_emails) :
                           /\ temp_emails[i].session_id = t.sub
                           /\ temp_emails[i].email_address
                                  = email_messages[k].to_email }
               listed == resp'.data
           IN  /\ Len(listed) = Cardinality(owned)
               /\ { listed[n] : n \in 1..Len(listed) }
                      = { email_messages[k] : k \in owned }
               /\ \A n \in 1..(Len(listed) - 1) :
                      ~StrLess(listed[n].received_at, listed[n + 1].received_at)]_vars

\* C8: a message is stored unread; while it is stored its read flag never goes
\* back to false; a fetch answers with the flag set and sets the stored flag
\* if the message is still there; a fetch of a message that is already read
\* changes nothing.
C8_ReadFlag ==
    [][/\ \A k \in 1..Len(email_messages') :
            MessagesById(email_messages, email_messages'[k].id) = {}
                => email_messages'[k].is_read = FALSE
       /\ \A k \in 1..Len(email_messages) : \A j \in 1..Len(email_messages') :
            (email_messages'[j].id = email_messages[k].id
                /\ email_messages[k].is_read) => email_messages'[j].is_read
       /\ GetMessageMarkRead =>
            /\ resp'.status = 200
            /\ resp'.data.is_read = TRUE
            /\ \A j \in 1..Len(email_messages') :
                  email_messages'[j].id = gm.message_id
                      => email_messages'[j].is_read
            /\ (\A k \in 1..Len(email_messages) :
                   email_messages[k].id = gm.message_id
                       => email_messages[k].is_read)
                   => email_messages' = email_messages]_vars

\* A fetch in progress found the message read by an earlier fetch.
C8_Witness ==
    /\ gm.pc = "mark_read"
    /\ gm.message.is_read
    /\ \E k \in 1..Len(email_messages) :
          email_messages[k].id = gm.message_id /\ email_messages[k].is_read

\* C9: in every statistics response the active, used and expired codes add up
\* to the total.
C9_StatsAddUp ==
    (resp.op = "get_stats" /\ resp.status = 200) =>
        resp.data.active_codes + resp.data.used_codes + resp.data.expired_codes
            = resp.data.total_codes

\* Statistics answered from counts that a redemption came between: the code
\* counted as unused in the total has been counted as used.
C9_Witness ==
    /\ resp.op = "get_stats"
    /\ resp.status = 200
    /\ resp.data.used_codes + resp.data.expired_codes > 0
    /\ resp.data.active_codes # Cardinality(
           { i \in 1..Len(access_codes) :
               ~access_codes[i].used
                 /\ ~StrLess(access_codes[i].expires_at, isoformat(now)) })

\* C11: while a code record is stored, once its used flag is true the flag
\* stays true and its used_at stays what it is, whatever step is taken.
C11_UsedOnce ==
    [][\A i \in 1..Len(access_codes) : \A j \in 1..Len(access_codes') :
         (access_codes'[j].id = access_codes[i].id /\ access_codes[i].used)
            => /\ access_codes'[j].used
               /\ access_codes'[j].used_at = access_codes[i].used_at]_vars

\* C12: every stored access code expires after it was created.
C12_ExpiresAfterCreated ==
    \A i \in 1..Len(access_codes) :
        fromisoformat(access_codes[i].expires_at)
            > fromisoformat(access_codes[i].created_at)

\* C13: whoever holds a correctly signed, unexpired token fetches and deletes
\* any stored message by its id, whether or not the message's address is a
\* mailbox of the token's session: the fetch finds the message, answers with
\* it and marks the stored message read; the delete removes it.
C13_NotScoped ==
    [][/\ \A t \in tokens, id \in MessageIds :
            (now < fromtimestamp(t.exp) /\ MessagesById(email_messages, id) # {})
               => /\ GetMessageFind(t, id) =>
                       /\ gm'.pc = "mark_read"
                       /\ gm'.message \in
                             { email_messages[k] : k \in MessagesById(email_messages, id) }
                  /\ delete_message(t, id) =>
                       /\ resp'.status = 200
                       /\ MessagesById(email_messages', id) = {}
       /\ GetMessageMarkRead =>
            /\ resp'.status = 200
            /\ resp'.data = [gm.message EXCEPT !.is_read = TRUE]
            /\ resp'.data.id = gm.message_id
            /\ \A k \in MessagesById(email_messages', gm.message_id) :
                  email_messages'[k].is_read]_vars

\* A fetch found a message whose address is no mailbox of any session that
\* holds a token: the caller does not own it.
C13_Witness ==
    /\ gm.pc = "mark_read"
    /\ tokens # {}
    /\ \A t \in tokens : \A i \in 1..Len(temp_emails) :
          temp_emails[i].session_id = t.sub
             => temp_emails[i].email_address # gm.message.to_email

\* C14: an administrator's route called with a correctly signed, unexpired
\* token whose role is not admin answers 403 "Admin access required" and
\* changes no code, mailbox or message; a code is created or deleted only by
\* a step whose caller can hold an unexpired admin-role token.
C14_AdminOnly ==
    [][/\ \A t \in tokens :
            (t.role # "admin" /\ now < fromtimestamp(t.exp)) =>
               \A h \in ExpiryHoursInputs, id \in CodeIds :
                  (\/ resp'.op = "generate_access_code" /\ generate_access_code(t, h)
                   \/ resp'.op = "get_all_codes" /\ get_all_codes(t)
                   \/ resp'.op = "revoke_code" /\ revoke_code(t, id)
                   \/ StatsStart(t))
                     => /\ resp'.status = 403
                        /\ resp'.detail = "Admin access required"
                        /\ UNCHANGED << access_codes, temp_emails, email_messages >>
       /\ Len(access_codes') # Len(access_codes) =>
            \E t \in tokens : t.role = "admin" /\ now < fromtimestamp(t.exp)
      ]_<< resp.op, resp.status, vars >>

\* A session's unexpired token was refused on an administrator's route.
C14_Witness ==
    /\ resp.status = 403
    /\ \E t \in tokens : t.role = "user" /\ now < fromtimestamp(t.exp)

\* C18: after startup on an empty credential store, a login with username
\* "admin" and password "admin123" answers 200 with an admin-role token; a
\* login with a username that is not stored, or with a wrong password,
\* answers 401.
C18_DefaultLogin ==
    [][/\ admin_login("admin", "admin123") =>
            /\ resp'.status = 200
            /\ resp'.data.role = "admin"
       /\ \A u \in Usernames, pw \in Passwords :
            (admin_login(u, pw)
               /\ \A i \in 1..Len(admin_users) :
                     \/ admin_users[i].username # u
                     \/ admin_users[i].password_hash # PasswordHash(pw))
               => resp'.status = 401]_vars

\* C15: a revoke of a stored code's id answers 200 and removes that record and
\* no other, used or not; a revoke of an id that is not stored answers 404 and
\* changes nothing; once the revoke has succeeded a redemption of the record's
\* code string finds no code, and a listing does not show the record.
C15_RevokeRemoves ==
    [][/\ \A t \in tokens, n \in 1..TwoCodes :
            (resp'.op = "revoke_code" /\ resp'.status \in { 200, 404 }
               /\ revoke_code(t, << "code", n >>)) =>
               LET found == CodesById(access_codes, << "code", n >>)
               IN  IF found = {}
                   THEN resp'.status = 404 /\ access_codes' = access_codes
                   ELSE /\ resp'.status = 200
                        /\ Len(access_codes') = Len(access_codes) - 1
                        /\ CodesById(access_codes', << "code", n >>) = {}
                        /\ \A i \in found :
                              CodesByCode(access_codes', access_codes[i].code) = {}
       /\ \A t \in tokens :
            (resp'.op = "get_all_codes" /\ resp'.status = 200 /\ get_all_codes(t)) =>
               { resp'.data[k].id : k \in 1..Len(resp'.data) }
                  = { access_codes[i].id : i \in 1..Len(access_codes) }
      ]_<< resp.op, resp.status, vars >>

\* C16: no two stored mailboxes have the same address.
C16_AddressesUnique ==
    \A i \in 1..Len(temp_emails), j \in 1..Len(temp_emails) :
        temp_emails[i].email_address = temp_emails[j].email_address => i = j

\* C17: a delivery to a redemption's mailbox that is checked while the clock
\* is not past the mailbox's expires_at goes on to store the message, unread
\* and with the delivered subject; as long as the message is stored, a
\* listing with the redemption's token shows it, and shows one message when
\* it is the only one stored for the session's mailbox.
C17_DeliveredIsListed ==
    [][/\ (DeliverCheckExpiry /\ now <= fromisoformat(dl.email_doc.expires_at))
             => dl'.pc = "insert"
       /\ DeliverInsert =>
            /\ resp'.status = 200
            /\ \E k \in 1..Len(email_messages') :
                  /\ email_messages'[k].id = resp'.data
                  /\ email_messages'[k].to_email = dl.to_email
                  /\ email_messages'[k].subject = dl.subject
                  /\ email_messages'[k].is_read = FALSE
       /\ \A t \in tokens :
            (t.role = "user" /\ resp'.op = "get_messages" /\ resp'.status = 200
               /\ get_messages(t)) =>
               LET delivered == { k \in 1..Len(email_messages) :
                                    email_messages[k].to_email = t.email }
                   listed == { resp'.data[n] : n \in 1..Len(resp'.data) }
               IN  /\ \A k \in delivered : email_messages[k] \in listed
                   /\ Cardinality(delivered) = 1 => Len(resp'.data) = 1
      ]_<< resp.op, resp.status, vars >>

C20_DeleteExactlyOne ==
    [][/\ \A t \in tokens, id \in MessageIds :
            (resp'.op = "delete_message" /\ resp'.status \in { 200, 404 }
               /\ delete_message(t, id)) =>
               /\ UNCHANGED << temp_emails, access_codes >>
               /\ IF MessagesById(email_messages, id) = {}
                  THEN resp'.status = 404 /\ email_messages' = email_messages
                  ELSE /\ resp'.status = 200
                       /\ Len(email_messages') = Len(email_messages) - 1
                       /\ email_messages'
                            = SelectSeq(email_messages, LAMBDA m : m.id # id)
       /\ \A id \in MessageIds :
            (id[2] < next_id.message /\ MessagesById(email_messages, id) = {})
               => MessagesById(email_messages', id) = {}
       /\ \A t \in tokens, id \in MessageIds :
            (now < fromtimestamp(t.exp) /\ MessagesById(email_messages, id) = {}
               /\ resp'.op = "get_message" /\ GetMessageFind(t, id))
               => resp'.status = 404
       /\ \A t \in tokens :
            (resp'.op = "get_messages" /\ resp'.status = 200 /\ get_messages(t))
               => \A n \in 1..Len(resp'.data) :
                     MessagesById(email_messages, resp'.data[n].id) # {}
      ]_<< resp.op, resp.status, vars >>

\* Every message ever delivered has been deleted, and a further delete of one
\* of their ids was answered 404.
C20_Witness ==
    /\ resp.op = "delete_message"
    /\ resp.status = 404
    /\ next_id.message = MaxMessages + 1
    /\ email_messages = << >>

\* C21: the active_codes of a statistics response is not negative.
C21_ActiveNotNegative ==
    (resp.op = "get_stats" /\ resp.status = 200) => resp.data.active_codes >= 0

\* C22: when the used-flag write of a redemption finds no stored record of
\* the code it looked up, the redemption goes no further: it creates no
\* mailbox and issues no token for that code's id.
C22_WriteNeedsRecord ==
    [][\A p \in Redeemers :
         (VerifyCodeMarkUsed(p)
            /\ CodesById(access_codes, vc[p].code_doc.id) = {})
            => /\ vc'[p].pc = "idle"
               /\ resp'.op = "verify_code"
               /\ resp'.status # 200
      ]_<< resp.op, resp.status, vars >>

\* C23: the session id of every stored mailbox is the id of an access code,
\* never the id of an administrator.
C23_MailboxOfCode ==
    \A i \in 1..Len(temp_emails) :
        /\ temp_emails[i].session_id[1] = "code"
        /\ temp_emails[i].session_id[2] < next_id.code

\* C24: every used code was marked used no later than it expires.
C24_UsedBeforeExpiry ==
    \A i \in 1..Len(access_codes) :
        access_codes[i].used =>
            fromisoformat(access_codes[i].used_at)
                <= fromisoformat(access_codes[i].expires_at)

====
